---- MODULE Spec2Model ----
(***************************************************************************)
(* Daxgen: a workflow graph (files and tasks) is labelled, optionally      *)
(* wrapped, written as a Pegasus DAX document, and parsed back into a      *)
(* graph by dax2graphml.                                                   *)
(*                                                                         *)
(* A graph is [node |-> attributes of each node id, edge |-> set of        *)
(* <<u, v>>].  The attributes of a node are a record whose field `keys`    *)
(* is the set of attribute names the node carries; a field whose name is   *)
(* not in `keys` holds its blank value.  String attributes that the code   *)
(* splits (args on blanks, urls and sites on commas) are kept as the       *)
(* sequence of their parts.                                                *)
(*                                                                         *)
(* Python iterates a set or a dict in an order the code does not control.  *)
(* Where the order decides the result (the colour of a component, the      *)
(* representative of U, the node ids wrap hands out) it is a choice of the *)
(* environment (\E); where it only decides the order of the entries of the *)
(* document it is taken as ascending node id.                              *)
(*                                                                         *)
(* The document builder (Pegasus ADAG) is outside the repository: it      *)
(* records what write declares to it, and where write declares something   *)
(* twice it may instead raise (both outcomes are behaviours).              *)
(***************************************************************************)
EXTENDS Integers, Sequences, FiniteSets, TLC

VARIABLES
    workflow,   \* the persisted workflow that read() loads
    graph,      \* Daxgen.graph
    files,      \* Daxgen.files (meaningful when hasRoles)
    tasks,      \* Daxgen.tasks (meaningful when hasRoles)
    hasRoles,   \* the attributes files and tasks exist on the object
    op,         \* the last call made
    exc,        \* the exception that call raised, or "none"
    dax,        \* the document write() produced / parse_dax is given
    dag         \* the graph parse_dax returned

vars == <<workflow, graph, files, tasks, hasRoles, op, exc, dax, dag>>

----------------------------------------------------------------------------
(* Bounds of the model *)

\* edges of a workflow drawn for the object
MaxEdges == 3
\* edges of a workflow drawn for the dependency chains
MaxDepEdges == 6
\* the largest node id wrap may hand out
MaxId == 5
\* jobs of a document handed directly to parse_dax
MaxJobs == 2
\* tokens of a task's args
MaxArgs == 2

----------------------------------------------------------------------------
(* Node ids: strings of consecutive integers; int() and str() as tables *)

IdTable == <<"0", "1", "2", "3", "4", "5", "6", "7", "8", "9", "10", "11", "12">>

StrOf(n) == IdTable[n + 1]

IntOf(s) == CHOOSE n \in 0..(Len(IdTable) - 1) : IdTable[n + 1] = s

RECURSIVE Ascending(_)
Ascending(S) ==
    IF S = {} THEN <<>>
    ELSE LET m == CHOOSE x \in S : \A y \in S : IntOf(x) <= IntOf(y)
         IN  <<m>> \o Ascending(S \ {m})

----------------------------------------------------------------------------
(* Attributes *)

Blank == [keys |-> {}, lfn |-> "", name |-> "", args |-> <<>>, urls |-> <<>>,
          sites |-> <<>>, streams |-> 0, bipartite |-> 0]

Has(a, k) == k \in a.keys

With(a, k, v) == [a EXCEPT !.keys = @ \cup {k}, ![k] = v]

Without(a, k) == [a EXCEPT !.keys = @ \ {k}, ![k] = Blank[k]]

\* the default site of a location without one
DefaultSite == "local"

\* the option stringify knows to take a file
FileOption == "-C"

\* '_mapper' in lfn, and os.path.dirname(lfn), over the logical names used
HasMarker(lfn) == lfn \in {"repo/_mapper"}

Dirname(lfn) ==
    CASE lfn = "repo/_mapper" -> "repo"
      [] lfn = "data/input"   -> "data"
      [] OTHER                -> ""

\* os.path.abspath(config)
Abspath(p) ==
    CASE p = "task.cfg"  -> "/cwd/task.cfg"
      [] p = "other.cfg" -> "/cwd/other.cfg"
      [] OTHER           -> p

\* bitwise or of two stream flag values (0..3)
BitOr(a, b) ==
    LET b0 == IF a % 2 = 1 \/ b % 2 = 1 THEN 1 ELSE 0
        b1 == IF (a \div 2) % 2 = 1 \/ (b \div 2) % 2 = 1 THEN 2 ELSE 0
    IN  b0 + b1

BitAnd(a, b) ==
    LET b0 == IF a % 2 = 1 /\ b % 2 = 1 THEN 1 ELSE 0
        b1 == IF (a \div 2) % 2 = 1 /\ (b \div 2) % 2 = 1 THEN 2 ELSE 0
    IN  b0 + b1

----------------------------------------------------------------------------
(* Graphs (networkx.DiGraph) *)

EmptyGraph == [node |-> <<>>, edge |-> {}]

Nodes(g) == DOMAIN g.node

Predecessors(g, v) == {e[1] : e \in {d \in g.edge : d[2] = v}}

Successors(g, v) == {e[2] : e \in {d \in g.edge : d[1] = v}}

Neighbors(g, v) == Predecessors(g, v) \cup Successors(g, v)

RECURSIVE ReachFrom(_, _)
ReachFrom(g, S) ==
    LET T == S \cup UNION {Neighbors(g, v) : v \in S}
    IN  IF T = S THEN S ELSE ReachFrom(g, T)

Component(g, v) == ReachFrom(g, {v})

\* nx.bipartite.color raises NetworkXError: no two-colouring of the
\* undirected graph exists
ProperColorings(g) ==
    {c \in [Nodes(g) -> {0, 1}] : \A e \in g.edge : c[e[1]] # c[e[2]]}

\* The colourings nx.bipartite.color can return: every component with an edge
\* is coloured from the first node met that has a successor, which gets 1;
\* nodes without any edge get 0.
Color(g) ==
    {c \in ProperColorings(g) :
        \A v \in Nodes(g) :
            IF Neighbors(g, v) = {} THEN c[v] = 0
            ELSE \E s \in Component(g, v) : Successors(g, s) # {} /\ c[s] = 1}

\* nx.bipartite.sets: U is colour 1, V is colour 0
SetsU(c) == {v \in DOMAIN c : c[v] = 1}
SetsV(c) == {v \in DOMAIN c : c[v] = 0}

----------------------------------------------------------------------------
(* Daxgen._label *)

\* next(iter(U)): any node of U
Representatives(U) == U

\* files, tasks = (U, V) if the representative carries lfn else (V, U)
FilesOf(g, c, v) == IF Has(g.node[v], "lfn") THEN SetsU(c) ELSE SetsV(c)

\* every node tagged bipartite = 1 (file) or 0 (task)
Tagged(g, fs) ==
    [g EXCEPT !.node = [n \in Nodes(g) |->
        With(g.node[n], "bipartite", IF n \in fs THEN 1 ELSE 0)]]

\* what _label does to a non-empty graph: the exception raised, or the
\* tagged graph
Label(g) ==
    IF Color(g) = {}
    THEN {[exc |-> "ValueError: not bipartite", graph |-> g]}
    ELSE UNION {
           IF SetsU(c) = {}
           THEN {[exc |-> "StopIteration", graph |-> g]}
           ELSE {[exc |-> "none", graph |-> Tagged(g, FilesOf(g, c, v))] :
                    v \in Representatives(SetsU(c))}
           : c \in Color(g)}

\* files / tasks as __init__ and read recompute them from the tags
TaggedAs(g, b) == {v \in Nodes(g) : g.node[v].bipartite = b}

----------------------------------------------------------------------------
(* The workflows the object is given *)

FileNode(lfn) == With(Blank, "lfn", lfn)

TaskNode(name, args) == With(With(Blank, "name", name), "args", args)

\* all sets of at most k elements of S
RECURSIVE UpTo(_, _)
UpTo(S, k) ==
    IF k = 0 THEN {{}}
    ELSE LET P == UpTo(S, k - 1)
         IN  P \cup {p \cup {x} : p \in P, x \in S}

\* graphs on the node ids ids, node i drawn from choice[i], with at most k
\* of the edges cand
GraphsOn(ids, choice, cand, k) ==
    {[node |-> n, edge |-> e] :
        n \in {f \in [ids -> UNION {choice[i] : i \in ids}] :
                  \A i \in ids : f[i] \in choice[i]},
        e \in UpTo(cand, k)}

Pairs(ids) == {p \in ids \X ids : p[1] # p[2]}

\* the node ids of the tests' graph, and of a chain of three tasks
NodeIds == {"0", "1", "2"}
ChainIds == {"0", "1", "2", "3", "4"}

\* the ids are consecutive from "0"
Prefixes(ids) ==
    {S \in SUBSET ids : \A i \in S, j \in ids : IntOf(j) < IntOf(i) => j \in S}

\* (a) any structure on up to three nodes, plain attributes
PlainChoices ==
    {FileNode("data/input"), FileNode("repo/_mapper"), TaskNode("task", <<"val">>)}

StructGraphs ==
    UNION {GraphsOn(S, [i \in S |-> PlainChoices], Pairs(S), MaxEdges) :
              S \in Prefixes(NodeIds)}

----------------------------------------------------------------------------
(* Daxgen.__init__ and Daxgen.read *)

NoDax == [adag |-> FALSE, file |-> <<>>, job |-> <<>>, depends |-> <<>>]

\* the extensions read() has a loader for
Methods == {"json", "gexf", "gxf", "gml", "graphml"}

\* Daxgen(graph): the graph is copied and, when not empty, labelled; an
\* exception leaves no object
Constructed(g) ==
    IF Nodes(g) = {}
    THEN /\ graph = g
         /\ hasRoles = FALSE /\ files = {} /\ tasks = {}
    ELSE \E out \in Label(g) :
         /\ out.exc = "none"
         /\ graph = out.graph
         /\ hasRoles = TRUE
         /\ files = TaggedAs(out.graph, 1)
         /\ tasks = TaggedAs(out.graph, 0)

\* the object after construction, with the workflow read() will load
InitWith(W, C) ==
    /\ workflow \in W
    /\ \E g \in C : Constructed(g)
    /\ op = "init" /\ exc = "none"
    /\ dax = NoDax /\ dag = EmptyGraph

\* No caller catches an exception (bin/daxify.py): the run ends with it, and
\* with the document written.
Running == exc = "none" /\ ~dax.adag

Read ==
    /\ Running
    /\ op' = "read"
    /\ IF workflow.ext \notin Methods
       THEN /\ exc' = "ValueError: format"
            /\ UNCHANGED <<graph, files, tasks, hasRoles>>
       ELSE IF Nodes(workflow.graph) = {}
       THEN /\ graph' = workflow.graph
            /\ exc' = "none"
            /\ UNCHANGED <<files, tasks, hasRoles>>
       ELSE \E out \in Label(workflow.graph) :
            /\ graph' = out.graph
            /\ exc' = out.exc
            /\ IF out.exc = "none"
               THEN /\ hasRoles' = TRUE
                    /\ files' = TaggedAs(out.graph, 1)
                    /\ tasks' = TaggedAs(out.graph, 0)
               ELSE UNCHANGED <<files, tasks, hasRoles>>
    /\ UNCHANGED <<workflow, dax, dag>>

----------------------------------------------------------------------------
(* Daxgen.wrap and Daxgen._find_root *)

\* the wrapper wrap() installs by default
Wrapper == "execute"

\* the paths Cowriter.write may return for a task's configuration
ConfigPaths == {"task.cfg", "other.cfg"}

MaxInt(S) == CHOOSE n \in {IntOf(s) : s \in S} : \A s \in S : IntOf(s) <= n

Perms(S) ==
    {q \in [1..Cardinality(S) -> S] : \A i, j \in DOMAIN q : q[i] = q[j] => i = j}

\* the logical name whose directory _find_root returns: the first one met
\* with the marker, else the last one met
RootNames(lfns) ==
    IF \E l \in lfns : HasMarker(l) THEN {l \in lfns : HasMarker(l)} ELSE lfns

\* _find_root: the exception it raises, or "none"
FindRootExc(g, fs) ==
    IF \E f \in fs : f \notin Nodes(g) \/ ~Has(g.node[f], "lfn") THEN "KeyError"
    ELSE IF RootNames({g.node[f].lfn : f \in fs}) = {} THEN "UnboundLocalError"
    ELSE "none"

FindRoot(g, fs) == {Dirname(l) : l \in RootNames({g.node[f].lfn : f \in fs})}

\* (mutant) the id is not advanced: idx += 1 is missing
NextIdStale(idx) == idx

\* the node id of the next configuration file
NextId(idx) == idx + 1

\* the body of wrap's loop for task v, its configuration written to config
WrapTask(st, v, config) ==
    LET u == StrOf(NextId(st.idx))
        g == st.graph
        attrs == With(With(With(Blank, "lfn", config),
                           "urls", <<Abspath(config)>>), "sites", <<DefaultSite>>)
        task == With(With(g.node[v], "name", Wrapper), "args", <<config>>)
    IN  [exc |-> "none",
         idx |-> NextId(st.idx),
         graph |-> [node |-> [n \in Nodes(g) \cup {u} |->
                                 IF n = u THEN attrs
                                 ELSE IF n = v THEN task ELSE g.node[n]],
                    edge |-> g.edge \cup {<<u, v>>}],
         files |-> st.files \cup {u}]

\* wrap's loop over the tasks in the order q; it stops at the first task
\* without a name or args
RECURSIVE WrapLoop(_, _, _)
WrapLoop(st, q, config) ==
    IF q = <<>> THEN st
    ELSE LET v == Head(q)
         IN  IF v \notin Nodes(st.graph)
                \/ ~Has(st.graph.node[v], "name") \/ ~Has(st.graph.node[v], "args")
             THEN [st EXCEPT !.exc = "KeyError"]
             ELSE WrapLoop(WrapTask(st, v, config[v]), Tail(q), config)

Wrap ==
    /\ Running
    /\ op' = "wrap"
    /\ IF Nodes(graph) = {}
       THEN exc' = "ValueError: max" /\ UNCHANGED <<graph, files>>
       ELSE IF ~hasRoles
       THEN exc' = "AttributeError" /\ UNCHANGED <<graph, files>>
       ELSE IF FindRootExc(graph, files) # "none"
       THEN exc' = FindRootExc(graph, files) /\ UNCHANGED <<graph, files>>
       ELSE \E q \in Perms(tasks), config \in [tasks -> ConfigPaths] :
            LET st == WrapLoop([exc |-> "none", idx |-> MaxInt(Nodes(graph)),
                                graph |-> graph, files |-> files], q, config)
            IN  /\ st.idx <= MaxId
                /\ exc' = st.exc
                /\ graph' = st.graph
                /\ files' = st.files
    /\ UNCHANGED <<workflow, tasks, hasRoles, dax, dag>>

----------------------------------------------------------------------------
(* Daxgen.write *)

Min(a, b) == IF a <= b THEN a ELSE b

\* the physical names attached to a file: zip(urls, sites), every site the
\* default one when the node has no sites
PFNs(attrs) ==
    IF ~Has(attrs, "urls") THEN <<>>
    ELSE LET sites == IF Has(attrs, "sites") THEN attrs.sites
                      ELSE [i \in 1..Len(attrs.urls) |-> DefaultSite]
         IN  [i \in 1..Min(Len(attrs.urls), Len(sites)) |->
                 [url |-> attrs.urls[i], site |-> sites[i]]]

\* File(attrs['lfn']) with its physical names
Descriptor(attrs) == [name |-> attrs.lfn, pfn |-> PFNs(attrs)]

\* catalog[attrs['lfn']] = f over the files in iteration order: a logical name
\* keeps the descriptor stored last
Catalog(g, fs) ==
    [l \in {g.node[f].lfn : f \in fs} |->
        LET last == CHOOSE f \in fs :
                      /\ g.node[f].lfn = l
                      /\ \A h \in fs : g.node[h].lfn = l => IntOf(h) <= IntOf(f)
        IN  Descriptor(g.node[last])]

\* args.index(tok): the first position of tok
Index(args, tok) ==
    CHOOSE i \in 1..Len(args) : args[i] = tok /\ \A j \in 1..(i - 1) : args[j] # tok

\* the positions write replaces by a file object: args.index(lfn) for every
\* catalogued name among the tokens
Replaced(args, cat) ==
    {Index(args, l) : l \in {t \in DOMAIN cat : \E i \in 1..Len(args) : args[i] = t}}

\* job.addArguments(*args) after the replacement
Arguments(attrs, cat) ==
    IF ~Has(attrs, "args") THEN <<>>
    ELSE [i \in 1..Len(attrs.args) |->
            [file |-> i \in Replaced(attrs.args, cat), text |-> attrs.args[i]]]

\* the file a stream is redirected to: the last output carrying the bit
Redirect(g, outs, bit) ==
    LET flagged == SelectSeq(outs, LAMBDA f :
                       Has(g.node[f], "streams") /\ BitAnd(g.node[f].streams, bit) # 0)
    IN  IF flagged = <<>> THEN [set |-> FALSE, name |-> ""]
        ELSE [set |-> TRUE, name |-> g.node[flagged[Len(flagged)]].lfn]

Job(g, cat, t) ==
    LET ins  == Ascending(Predecessors(g, t))
        outs == Ascending(Successors(g, t))
    IN  [name |-> g.node[t].name,
         id |-> t,
         argument |-> Arguments(g.node[t], cat),
         uses |-> [i \in 1..Len(ins) |-> [name |-> g.node[ins[i]].lfn, link |-> "input"]]
                  \o [i \in 1..Len(outs) |-> [name |-> g.node[outs[i]].lfn, link |-> "output"]],
         stdout |-> Redirect(g, outs, 1),
         stderr |-> Redirect(g, outs, 2)]

\* (mutant) the producers of the producers' inputs are parents too
ParentsTransitive(g, t) ==
    LET direct == UNION {Predecessors(g, f) : f \in Predecessors(g, t)}
    IN  direct \cup UNION {UNION {Predecessors(g, f) : f \in Predecessors(g, p)} :
                              p \in direct}

\* the parents write declares for task t: the producers of its inputs
Parents(g, t) == UNION {Predecessors(g, f) : f \in Predecessors(g, t)}

\* dax.depends(parent, child) is called once for every parent of every task
Depends(g, ts) ==
    [d \in UNION {{<<p, t>> : p \in Parents(g, t)} : t \in ts} |-> 1]

\* the exception write raises, or "none"
WriteExc(g, fs, ts, roles) ==
    IF ~roles THEN "AttributeError"
    ELSE IF \E f \in fs : f \notin Nodes(g) \/ ~Has(g.node[f], "lfn") THEN "KeyError"
    ELSE IF \E t \in ts :
               \/ t \notin Nodes(g)
               \/ ~Has(g.node[t], "name")
               \/ \E f \in Neighbors(g, t) :
                     \/ ~Has(g.node[f], "lfn")
                     \/ g.node[f].lfn \notin DOMAIN Catalog(g, fs)
         THEN "KeyError"
    ELSE IF \E d \in DOMAIN Depends(g, ts) : d[1] \notin ts THEN "NotFoundError"
    ELSE "none"

\* write hands the document builder something a second time: a logical name
\* (dax.addFile), a file one job both reads and writes (job.uses), a job as
\* its own parent (dax.depends).  Whether the builder raises is decided by the
\* builder, which this code imports: both outcomes are kept.
BuilderMayRaise(g, fs, ts, roles) ==
    /\ roles
    /\ \A f \in fs : f \in Nodes(g) /\ Has(g.node[f], "lfn")
    /\ \/ \E f, h \in fs : f # h /\ g.node[f].lfn = g.node[h].lfn
       \/ /\ WriteExc(g, fs, ts, roles) \in {"none", "NotFoundError"}
          /\ \E t \in ts : Predecessors(g, t) \cap Successors(g, t) # {}

\* the exceptions a call of write can end with
WriteExcs(g, fs, ts, roles) ==
    {WriteExc(g, fs, ts, roles)}
        \cup (IF BuilderMayRaise(g, fs, ts, roles) THEN {"DuplicateError"} ELSE {})

\* the document write builds
Document(g, fs, ts) ==
    LET cat == Catalog(g, fs)
        fq  == Ascending(fs)
        tq  == Ascending(ts)
    IN  [adag |-> TRUE,
         file |-> [i \in 1..Len(fq) |-> Descriptor(g.node[fq[i]])],
         job |-> [i \in 1..Len(tq) |-> Job(g, cat, tq[i])],
         depends |-> Depends(g, ts)]

Write ==
    /\ Running
    /\ op' = "write"
    /\ exc' \in WriteExcs(graph, files, tasks, hasRoles)
    /\ dax' = IF exc' = "none" THEN Document(graph, files, tasks) ELSE NoDax
    /\ UNCHANGED <<workflow, graph, files, tasks, hasRoles, dag>>

----------------------------------------------------------------------------
(* dax2graphml: stringify and parse_dax *)

\* the '#text' of an argument element: its literal tokens
Text(argv) == SelectSeq(argv, LAMBDA a : ~a.file)

\* the file children of an argument element
FileRefs(argv) == SelectSeq(argv, LAMBDA a : a.file)

Tokens(q) == [i \in 1..Len(q) |-> q[i].text]

InsertAt(q, pos, x) ==
    [i \in 1..(Len(q) + 1) |->
        IF i <= pos THEN q[i] ELSE IF i = pos + 1 THEN x ELSE q[i - 1]]

\* stringify(arguments): the exception raised, or "none".  A plain string has
\* no file child.  With file children the code reads arguments['file'] as the
\* attributes of one file (.items()), arguments['#text'], and text.index('-C').
StringifyExc(argv) ==
    IF FileRefs(argv) = <<>> THEN "none"
    ELSE IF Len(FileRefs(argv)) > 1 THEN "AttributeError"
    ELSE IF Text(argv) = <<>> THEN "KeyError"
    ELSE IF \A i \in 1..Len(Text(argv)) : Text(argv)[i].text # FileOption
         THEN "ValueError: not in list"
    ELSE "none"

\* stringify(arguments): the tokens of the string returned
Stringify(argv) ==
    IF FileRefs(argv) = <<>> THEN Tokens(argv)
    ELSE LET text == Tokens(Text(argv))
         IN  InsertAt(text, Index(text, FileOption), FileRefs(argv)[1].text)

\* (mutant) the code is assigned: |= written as =
RedirectedOverwrite(attrs, code) == With(attrs, "streams", code)

\* attrs['streams'] |= code, or attrs['streams'] = code on the first redirect
Redirected(attrs, code) ==
    IF Has(attrs, "streams") THEN With(attrs, "streams", BitOr(attrs.streams, code))
    ELSE With(attrs, "streams", code)

\* the node a file entry becomes
ParsedFile(entry) ==
    IF entry.pfn = <<>> THEN With(Blank, "lfn", entry.name)
    ELSE With(With(With(Blank, "lfn", entry.name),
                   "urls", [i \in 1..Len(entry.pfn) |-> entry.pfn[i].url]),
              "sites", [i \in 1..Len(entry.pfn) |-> entry.pfn[i].site])

\* mapping[lfn]: the node id of the last file entry with that name
Mapping(file) ==
    [l \in {file[i].name : i \in 1..Len(file)} |->
        (CHOOSE i \in 1..Len(file) :
            file[i].name = l /\ \A j \in 1..Len(file) : file[j].name = l => j <= i) - 1]

\* the streams a job redirects, with their codes
Streams(entry) ==
    (IF entry.stderr.set THEN {[name |-> entry.stderr.name, code |-> 2]} ELSE {})
    \cup (IF entry.stdout.set THEN {[name |-> entry.stdout.name, code |-> 1]} ELSE {})

\* the exception the job entry raises, or "none"
ParseJobExc(entry, mapping) ==
    IF entry.argument # <<>> /\ StringifyExc(entry.argument) # "none"
    THEN StringifyExc(entry.argument)
    ELSE IF \E i \in 1..Len(entry.uses) : entry.uses[i].name \notin DOMAIN mapping
    THEN "KeyError"
    ELSE IF \E r \in Streams(entry) : r.name \notin DOMAIN mapping THEN "KeyError"
    ELSE "none"

RECURSIVE RedirectAll(_, _, _)
RedirectAll(node, rs, mapping) ==
    IF rs = {} THEN node
    ELSE LET r == CHOOSE x \in rs : \A y \in rs : x.code >= y.code
             u == mapping[r.name]
         IN  RedirectAll([node EXCEPT ![u] = Redirected(@, r.code)], rs \ {r}, mapping)

\* the body of parse_dax's loop over the jobs, for the job entry given id v
ParseJob(d, entry, v, mapping) ==
    LET named == With(Blank, "name", entry.name)
        attrs == IF entry.argument = <<>> THEN named
                 ELSE With(named, "args", Stringify(entry.argument))
        added == [n \in DOMAIN d.node \cup {v} |-> IF n = v THEN attrs ELSE d.node[n]]
        ins   == {<<mapping[entry.uses[i].name], v>> :
                     i \in {j \in 1..Len(entry.uses) : entry.uses[j].link = "input"}}
        outs  == {<<v, mapping[entry.uses[i].name]>> :
                     i \in {j \in 1..Len(entry.uses) : entry.uses[j].link = "output"}}
        reds  == {<<v, mapping[r.name]>> : r \in Streams(entry)}
    IN  [node |-> RedirectAll(added, Streams(entry), mapping),
         edge |-> d.edge \cup ins \cup outs \cup reds]

RECURSIVE ParseJobs(_, _, _, _)
ParseJobs(st, job, v, mapping) ==
    IF job = <<>> THEN st
    ELSE IF ParseJobExc(Head(job), mapping) # "none"
    THEN [st EXCEPT !.exc = ParseJobExc(Head(job), mapping)]
    ELSE ParseJobs([st EXCEPT !.dag = ParseJob(st.dag, Head(job), v, mapping)],
                   Tail(job), v + 1, mapping)

\* parse_dax(plan): node ids count up from 0, files first, then jobs
ParseDaxOf(plan) ==
    LET nf == Len(plan.file)
        fileNodes == [dag |-> [node |-> [n \in 0..(nf - 1) |-> ParsedFile(plan.file[n + 1])],
                               edge |-> {}],
                      exc |-> "none"]
    IN  ParseJobs(fileNodes, plan.job, nf, Mapping(plan.file))

ParseDax ==
    /\ dax.adag
    /\ op' = "parse_dax"
    /\ LET r == ParseDaxOf(dax)
       IN  /\ exc' = r.exc
           /\ dag' = IF r.exc = "none" THEN r.dag ELSE EmptyGraph
    /\ UNCHANGED <<workflow, graph, files, tasks, hasRoles, dax>>

----------------------------------------------------------------------------
(* Specifications *)

Next == Read \/ Wrap \/ Write \/ ParseDax

\* a workflow in a format read() has no loader for is never loaded
Loaded(G) == {[ext |-> "graphml", graph |-> g] : g \in G}
             \cup {[ext |-> "xml", graph |-> EmptyGraph]}

\* (b) the chain file -> task -> file of the tests, with the attributes varied
ArgTokens == {FileOption, "val", "data/input"}

ArgChoices == UNION {[1..n -> ArgTokens] : n \in 0..MaxArgs}

LocChoices(a) == {a, With(a, "urls", <<"gsiftp://host/f">>),
                  With(With(a, "urls", <<"gsiftp://host/f">>), "sites", <<"lsst">>)}

StreamChoices(a) == {a} \cup {With(a, "streams", b) : b \in 1..3}

Lfns == {"data/input", "repo/_mapper"}

AttrChoices ==
    [i \in NodeIds |->
        CASE i = "0" -> LocChoices(FileNode("data/input"))
          [] i = "1" -> {With(Blank, "name", "task")}
                        \cup {TaskNode("task", a) : a \in ArgChoices}
          [] i = "2" -> UNION {StreamChoices(FileNode(l)) : l \in Lfns}]

AttrGraphs == GraphsOn(NodeIds, AttrChoices, {<<"0", "1">>, <<"1", "2">>}, MaxEdges)

\* the object is built empty and reads any workflow, or is built from a
\* workflow and reads an empty one
Init ==
    \/ InitWith(Loaded(StructGraphs), {EmptyGraph})
    \/ InitWith(Loaded({EmptyGraph}), StructGraphs)

Spec == Init /\ [][Next]_vars

InitAttrs ==
    \/ InitWith(Loaded(AttrGraphs), {EmptyGraph})
    \/ InitWith(Loaded({EmptyGraph}), AttrGraphs)

SpecAttrs == InitAttrs /\ [][Next]_vars

\* (c) task / file / task / file / task with any edges between a task and a
\* file
DepChoices ==
    [i \in ChainIds |->
        IF IntOf(i) % 2 = 0 THEN {With(Blank, "name", "task")}
        ELSE {FileNode(IF i = "1" THEN "data/input" ELSE "repo/_mapper")}]

DepPairs == {p \in Pairs(ChainIds) : IntOf(p[1]) % 2 # IntOf(p[2]) % 2}

DepGraphs == GraphsOn(ChainIds, DepChoices, DepPairs, MaxDepEdges)

InitDeps == InitWith(Loaded(DepGraphs), {EmptyGraph})

SpecDeps == InitDeps /\ [][Next]_vars

\* (d) documents handed to parse_dax directly
PlanFiles == {<<[name |-> "a", pfn |-> <<>>]>>,
              <<[name |-> "a", pfn |-> <<>>], [name |-> "b", pfn |-> <<>>]>>}

RedirectChoices == {[set |-> FALSE, name |-> ""], [set |-> TRUE, name |-> "a"],
                    [set |-> TRUE, name |-> "b"]}

PlanJobs ==
    [name : {"task"}, id : {"ID"},
     argument : {<<>>, <<[file |-> FALSE, text |-> FileOption],
                         [file |-> TRUE, text |-> "a"]>>},
     uses : {<<>>, <<[name |-> "a", link |-> "output"]>>},
     stdout : RedirectChoices, stderr : RedirectChoices]

Plans ==
    {[adag |-> TRUE, file |-> f, job |-> j, depends |-> <<>>] :
        f \in PlanFiles, j \in UNION {[1..n -> PlanJobs] : n \in 0..MaxJobs}}

InitParse ==
    /\ workflow = [ext |-> "graphml", graph |-> EmptyGraph]
    /\ Constructed(EmptyGraph)
    /\ op = "init" /\ exc = "none"
    /\ dax \in Plans /\ dag = EmptyGraph

NextParse == ParseDax

SpecParse == InitParse /\ [][NextParse]_vars

----------------------------------------------------------------------------
(* Claims about labelling and wrapping (Spec) *)

IsFile(g, v) == Has(g.node[v], "lfn")

\* an edge between two file nodes or between two task nodes
SameRoleEdge(g) == \E e \in g.edge : IsFile(g, e[1]) <=> IsFile(g, e[2])

Labelled == op \in {"init", "read"} /\ exc = "none" /\ Nodes(graph) # {}

\* C2: a non-empty graph with an edge between two nodes of the same role is
\* never accepted by construction or read: labelling it raises the
\* not-bipartite error and tags nothing.
C2_BipartiteRejection ==
    (/\ op \in {"init", "read"}
     /\ exc # "ValueError: format"
     /\ Nodes(graph) # {}
     /\ SameRoleEdge(graph))
    => /\ exc = "ValueError: not bipartite"
       /\ \A v \in Nodes(graph) : ~Has(graph.node[v], "bipartite")

\* C3: after a successful labelling of a graph whose edges all join a file
\* and a task, every node carrying lfn is tagged 1 and every other node 0,
\* whatever colouring and representative were used.
C3_ClassificationByLfn ==
    (Labelled /\ ~SameRoleEdge(graph))
    => \A v \in Nodes(graph) :
          /\ Has(graph.node[v], "bipartite")
          /\ graph.node[v].bipartite = IF IsFile(graph, v) THEN 1 ELSE 0

\* C8: wrap on a graph none of whose files carries the marker fails and
\* changes neither the graph nor the role sets.
C8_MissingMarkerFails ==
    [][(/\ op' = "wrap"
        /\ hasRoles /\ Nodes(graph) # {}
        /\ \A v \in Nodes(graph) : IsFile(graph, v) => ~HasMarker(graph.node[v].lfn))
       => (exc' # "none" /\ graph' = graph /\ files' = files)]_vars

\* C9: a wrap that returns leaves every old node id and edge in place, and
\* gives every task that existed exactly one new predecessor, a file node
\* with a fresh id whose lfn is the task's new args, at the default site; the
\* task is renamed to the wrapper.
C9_WrapPostcondition ==
    [][(op' = "wrap" /\ exc' = "none")
       => LET old == Nodes(graph)
              new == Nodes(graph') \ old
              T   == {v \in old : ~IsFile(graph, v)}
          IN  /\ old \subseteq Nodes(graph')
              /\ graph.edge \subseteq graph'.edge
              /\ graph'.edge \ graph.edge \subseteq new \X T
              /\ Cardinality(new) = Cardinality(T)
              /\ \A v \in old \ T : graph'.node[v] = graph.node[v]
              /\ \A t \in T :
                    /\ Cardinality(Predecessors(graph', t) \cap new) = 1
                    /\ graph'.node[t].name = Wrapper
                    /\ \A u \in Predecessors(graph', t) \cap new :
                          /\ IsFile(graph', u)
                          /\ graph'.node[t].args = <<graph'.node[u].lfn>>
                          /\ graph'.node[u].lfn \in ConfigPaths
                          /\ graph'.node[u].sites = <<DefaultSite>>]_vars

\* two tasks were wrapped by one call
C9_Witness ==
    /\ op = "wrap" /\ exc = "none"
    /\ Cardinality(tasks) = 2
    /\ \A t \in tasks : graph.node[t].name = Wrapper
    /\ Cardinality(Nodes(graph)) = 5

\* C10: after construction and after every successful read or wrap the role
\* sets exist, partition the nodes of the current graph and agree with the
\* tags and with the lfn attribute.
C10_RoleSetsConsistent ==
    (op \in {"init", "read", "wrap"} /\ exc = "none")
    => /\ hasRoles
       /\ files \cap tasks = {}
       /\ files \cup tasks = Nodes(graph)
       /\ files = {v \in Nodes(graph) :
                     Has(graph.node[v], "bipartite") /\ graph.node[v].bipartite = 1}
       /\ tasks = {v \in Nodes(graph) :
                     Has(graph.node[v], "bipartite") /\ graph.node[v].bipartite = 0}
       /\ files = {v \in Nodes(graph) : IsFile(graph, v)}

----------------------------------------------------------------------------
(* Claims about the document written (SpecAttrs, SpecDeps) *)

Written == dax.adag /\ op \in {"write", "parse_dax"}

\* the graph as it was given: without the tags _label added
Untagged(g) == [g EXCEPT !.node = [n \in Nodes(g) |-> Without(g.node[n], "bipartite")]]

\* the same node attributes and the same edges up to a renaming of the ids
Isomorphic(g, d) ==
    /\ Cardinality(Nodes(g)) = Cardinality(Nodes(d))
    /\ \E h \in [Nodes(g) -> Nodes(d)] :
          /\ \A u, v \in Nodes(g) : h[u] = h[v] => u = v
          /\ \A v \in Nodes(g) : d.node[h[v]] = g.node[v]
          /\ d.edge = {<<h[e[1]], h[e[2]]>> : e \in g.edge}

\* a graph of the data model: edges join a file and a task, logical names
\* are unique, locations come with their sites, a stream flag sits on a file
\* some task produces, args are not blank
Canonical(g) ==
    /\ ~SameRoleEdge(g)
    /\ \A u, v \in Nodes(g) :
          IsFile(g, u) /\ IsFile(g, v) /\ g.node[u].lfn = g.node[v].lfn => u = v
    /\ \A v \in Nodes(g) :
          /\ Has(g.node[v], "urls") <=> Has(g.node[v], "sites")
          /\ Len(g.node[v].urls) = Len(g.node[v].sites)
          /\ Has(g.node[v], "streams") => Predecessors(g, v) # {}
          /\ Has(g.node[v], "args") => g.node[v].args # <<>>

\* C1: parsing the document written for a graph of the data model returns a
\* graph isomorphic to it (the same node attributes, role tags aside, and the
\* same edges up to the node ids), also when a task's args name a file.
C1_RoundTrip ==
    (op = "parse_dax" /\ dax.adag /\ Canonical(graph))
    => (exc = "none" /\ Isomorphic(Untagged(graph), dag))

\* C4: in the document written, an argument of a job is a reference to a file
\* exactly when its token is the logical name of a catalogued file (at every
\* position), and every argument keeps the text of its token.
C4_SubstitutionExact ==
    Written
    => \A i \in 1..Len(dax.job) :
          LET attrs == graph.node[dax.job[i].id]
              argv  == dax.job[i].argument
          IN  Has(attrs, "args")
              => /\ Len(argv) = Len(attrs.args)
                 /\ \A k \in 1..Len(argv) :
                       /\ argv[k].text = attrs.args[k]
                       /\ argv[k].file <=> \E f \in files : graph.node[f].lfn = attrs.args[k]

\* C5: the dependencies write declares are exactly the pairs (P, T) with T a
\* task and a file F such that P -> F and F -> T are edges, each declared
\* once.
C5_ParentsTwoHop ==
    Written
    => /\ DOMAIN dax.depends =
            {d \in Nodes(graph) \X {t \in Nodes(graph) : ~IsFile(graph, t)} :
                \E f \in Nodes(graph) :
                   /\ IsFile(graph, f)
                   /\ <<d[1], f>> \in graph.edge /\ <<f, d[2]>> \in graph.edge}
       /\ \A d \in DOMAIN dax.depends : dax.depends[d] = 1

\* A -> f -> B -> g -> C: B depends on A and C on B, and C not on A
C5_Witness ==
    /\ Written
    /\ graph.edge = {<<"0", "1">>, <<"1", "2">>, <<"2", "3">>, <<"3", "4">>}
    /\ DOMAIN dax.depends = {<<"0", "2">>, <<"2", "4">>}

----------------------------------------------------------------------------
(* Claims about parse_dax (SpecParse) *)

\* the jobs of the document that redirect the stream with this code to l
Redirecting(l, code) ==
    {j \in 1..Len(dax.job) :
        IF code = 1 THEN dax.job[j].stdout.set /\ dax.job[j].stdout.name = l
        ELSE dax.job[j].stderr.set /\ dax.job[j].stderr.name = l}

====
